---------------------------- MODULE Spec2Model ----------------------------
(***************************************************************************)
(* A model of the <stereo-img> custom element (src/stereo-img.js) and of   *)
(* its VR entry button (src/unnamed/part_000, imported by stereo-img.js    *)
(* as ./vr-button.js).                                                     *)
(*                                                                         *)
(* The browser is the environment: it runs one task at a time, runs timer  *)
(* callbacks and promise continuations only between tasks, resolves or     *)
(* rejects the promises of the parsers and of the WebXR API, and calls the *)
(* animation loop.  Each handler of the code is one action.                *)
(***************************************************************************)
EXTENDS Integers, Sequences, FiniteSets, TLC

(***************************************************************************)
(* JavaScript values.  A value is its type tag and its string form, so     *)
(* that the number 180 and the string "180" are different values with the  *)
(* same string form.                                                       *)
(***************************************************************************)
Str(x) == [t |-> "string", s |-> x]
Num(x) == [t |-> "number", s |-> x]
JSNull == [t |-> "null", s |-> "null"]
JSUndefined == [t |-> "undefined", s |-> "undefined"]
JSTrue == [t |-> "boolean", s |-> "true"]

\* if (val): the falsy values are null, undefined, "", 0 and false
ToBoolean(v) ==
    ~ \/ v.t \in {"null", "undefined"}
      \/ v.t = "string" /\ v.s = ""
      \/ v.t = "number" /\ v.s = "0"
      \/ v.t = "boolean" /\ v.s = "false"

\* setAttribute(name, val) stores the string form of val
ToDOMString(v) == Str(v.s)

StrictEquals(a, b) == a = b

(***************************************************************************)
(* Bounds and input sets.                                                  *)
(***************************************************************************)
\* an assignment schedules a parseImageAndInitialize3DScene only while the calls made
\* and scheduled so far, the one of init() included, are fewer than this
MaxRuns == 2
\* calls of navigator.xr.requestSession, and XR sessions granted, in one behaviour
MaxRequests == 3
MaxSessions == 2
\* the time that passes in one step of the clock, in ms
TickMS == 200

PREV_NEXT_TIMEOUT_MS == 1000

PropNames == {"src", "type", "angle", "backImageSrc"}

\* values a script assigns to a property when only the accessors are exercised
JSVals == {Str("a.jpg"), Str(""), Num("180"), Num("0"), JSNull, JSUndefined}

SrcVals == {Str("a.jpg"), Str("b.jpg")}
TypeVals == {Str("vr"), Str("left-right"), Str("top-bottom"), Str("anaglyph"), Str("foo")}
AngleVals == {Str("180")}
BackVals == {Str("back.jpg")}

VARIABLES
    \* ---- StereoImg (src/stereo-img.js)
    attrs,            \* the element's DOM attributes, by lowercased name; JSNull: absent
    timers,           \* pending window.setTimeout(..., 0) callbacks, oldest first
    runs,             \* the calls of parseImageAndInitialize3DScene, by position
    stereoData,       \* this.stereoData
    scene,            \* this.scene
    camera,           \* this.camera: "none", or where it stands: "home" is (0, 0, 0.1)
    raycaster,        \* this.raycaster exists
    prevNextButtons,  \* this.prevNextButtons: 0, or the pair of button groups
    pairs,            \* pairs of button groups created so far
    opacity,          \* this.style.opacity
    animating,        \* the renderer's animation loop is set
    warnings,         \* console.warn calls of parse()
    \* ---- the browser's event loop, and what a script did
    micro,            \* the microtask queue: the calls whose continuation is ready, oldest first
    settling,         \* the running task has settled a promise and no continuation has run yet
    inTask,           \* a script task has assigned a property and has not ended
    touched,          \* the running task has assigned type or angle
    boundary,         \* the attributes as they stood when the last task ended
    lastOp,           \* the property assignment of the last step, if it was one
    \* ---- gaze-dwell navigation (src/stereo-img.js)
    prevNextTimer,    \* this.prevNextTimer: 0 (null), or the id setTimeout returned
    sinceStartMS,     \* performance.now() - this.prevNextTimerStartMS, up to the timeout
    timerRingForPrev, \* this.timerRingForPrev: "undefined", "true" or "false"
    timerRing,        \* this.timerRing: the side it is drawn on and the time it shows
    dwell,            \* the browser's pending dwell timeouts
    dispatched,       \* the event the last step dispatched, with the timeout that fired
    gaze,             \* the button the ray of the last frame intersected, if any
    \* ---- VRButton (src/unnamed/part_000)
    navigatorXR,      \* 'xr' in navigator
    xrSessionIsGranted, \* VRButton.xrSessionIsGranted
    button,           \* the element createButton returns: its properties and handlers
    support,          \* what became of isSessionSupported('immersive-vr')
    currentSession,   \* currentSession of showEnterVR: 0 (null), or the session
    requests,         \* navigator.xr.requestSession promises not yet settled
    requestCalls,     \* calls of navigator.xr.requestSession so far
    sessions,         \* XR sessions granted so far
    live,             \* the XR sessions that have not ended
    ending,           \* the live sessions whose end() has been called
    starting,         \* the sessions whose onSessionStarted awaits renderer.xr.setSession
    listeners,        \* the sessions with onSessionEnded as their 'end' listener
    xrWarnings,       \* console.warn calls of showVRNotAllowed
    clickedSince      \* the button was clicked after isSessionSupported settled

elemVars ==
    <<attrs, timers, runs, stereoData, scene, camera, raycaster, prevNextButtons,
      pairs, opacity, animating, warnings, micro, settling, inTask, touched, boundary, lastOp>>

gazeVars ==
    <<prevNextTimer, sinceStartMS, timerRingForPrev, timerRing, dwell, dispatched, gaze>>

vrVars ==
    <<navigatorXR, xrSessionIsGranted, button, support, currentSession, requests,
      requestCalls, sessions, live, ending, starting, listeners, xrWarnings, clickedSince>>

vars == <<elemVars, gazeVars, vrVars>>

(***************************************************************************)
(* The attribute accessors.                                                *)
(***************************************************************************)
\* an HTML element's attribute names are ASCII-lowercased by setAttribute,
\* getAttribute and removeAttribute
AttrKey(name) == IF name = "backImageSrc" THEN "backimagesrc" ELSE name

AttrKeys == {AttrKey(n) : n \in PropNames}

getAttribute(a, name) == a[AttrKey(name)]

setAttribute(a, name, val) == [a EXCEPT ![AttrKey(name)] = ToDOMString(val)]

removeAttribute(a, name) == [a EXCEPT ![AttrKey(name)] = JSNull]

\* get type(), get angle(), get src(), get backImageSrc()
Getter(a, name) == getAttribute(a, name)

\* (as Reflect, testing val !== null in place of val)
ReflectNotNull(a, name, val) ==
    IF val # JSNull THEN setAttribute(a, name, val) ELSE removeAttribute(a, name)

\* if (val) setAttribute(name, val) else removeAttribute(name)
Reflect(a, name, val) ==
    IF ToBoolean(val) THEN setAttribute(a, name, val) ELSE removeAttribute(a, name)

(***************************************************************************)
(* parse() and parseImageAndInitialize3DScene().  The parsers and exifr    *)
(* are imported: a call of one is a promise the browser settles later.     *)
(***************************************************************************)
Call(fn, src, type, angle) == [fn |-> fn, src |-> src, type |-> type, angle |-> angle]

NoCall == Call("none", JSUndefined, JSUndefined, JSUndefined)

\* this.stereoData before the first parse() has assigned it
NoData == [parsedBy |-> NoCall]

\* what a parser's promise resolves to: the data of that call
Parsed(call) == [parsedBy |-> call]

\* the fake stereo data of an element without src
Placeholder ==
    [leftEye |-> "ImageData(10, 10)", rightEye |-> "ImageData(10, 10)",
     phiLength |-> 0, thetaStart |-> 0, thetaLength |-> 0]

NoScene == [id |-> 0, data |-> NoData, back |-> JSNull, buttons |-> <<>>]

\* (as ParseBegin, with 'top-bottom' left out of the stereo types)
ParseBeginLeftRightOnly(a) ==
    LET src == Getter(a, "src")
        type == Getter(a, "type")
        angle == Getter(a, "angle")
    IN  IF ToBoolean(src)
        THEN IF StrictEquals(type, Str("vr"))
             THEN Call("parseVR", src, JSUndefined, JSUndefined)
             ELSE IF StrictEquals(type, Str("left-right"))
             THEN Call("parseStereo", src, type, angle)
             ELSE IF StrictEquals(type, Str("anaglyph"))
             THEN Call("parseAnaglyph", src, JSUndefined, angle)
             ELSE Call("exifr", src, JSUndefined, JSUndefined)
        ELSE NoCall

\* parse(), from its call to its first await: the parser it calls, or "exifr" when the
\* XMP metadata decides, or "none" when there is no src
ParseBegin(a) ==
    LET src == Getter(a, "src")
        type == Getter(a, "type")
        angle == Getter(a, "angle")
    IN  IF ToBoolean(src)
        THEN IF StrictEquals(type, Str("vr"))
             THEN Call("parseVR", src, JSUndefined, JSUndefined)
             ELSE IF StrictEquals(type, Str("left-right")) \/ StrictEquals(type, Str("top-bottom"))
             THEN Call("parseStereo", src, type, angle)
             ELSE IF StrictEquals(type, Str("anaglyph"))
             THEN Call("parseAnaglyph", src, JSUndefined, angle)
             ELSE Call("exifr", src, JSUndefined, JSUndefined)
        ELSE NoCall

\* parse(), after exifr.parse() has resolved: if (exif?.GImage?.Data)
ParseAfterExif(a, hasGImage) ==
    IF hasGImage
    THEN Call("parseVR", Getter(a, "src"), JSUndefined, JSUndefined)
    ELSE Call("parseStereo", Getter(a, "src"), JSUndefined, Getter(a, "angle"))

\* a call of parseImageAndInitialize3DScene, up to the first await of parse()
NewRun(kind, timer, a, bnd) ==
    LET c == ParseBegin(a)
    IN  [kind |-> kind,
         pc |-> IF c.fn = "none" THEN "parsed" ELSE IF c.fn = "exifr" THEN "exif" ELSE "parser",
         call |-> c,
         ncalls |-> IF c.fn \in {"none", "exifr"} THEN 0 ELSE 1,
         nwarn |-> 0,
         src |-> Getter(a, "src"),
         type |-> Getter(a, "type"),
         gimage |-> "unread",
         by |-> timer.by,
         with |-> timer.with,
         mixed |-> a # bnd]

IsParserCall(c) == c.fn \in {"parseVR", "parseStereo", "parseAnaglyph"}

(***************************************************************************)
(* Property assignments by scripts.                                        *)
(***************************************************************************)
NoOp == [prop |-> "none", val |-> JSNull, same |-> FALSE, camera |-> "none"]

\* window.setTimeout(() => that.parseImageAndInitialize3DScene(), 0)
Schedule(tm, name) ==
    Append(tm, [by |-> name, open |-> TRUE, with |-> IF inTask /\ touched THEN "before" ELSE "no"])

\* type or angle is assigned in the task that set these timers
Mark(tm) ==
    [i \in DOMAIN tm |->
        IF tm[i].open /\ tm[i].with = "no" THEN [tm[i] EXCEPT !.with = "after"] ELSE tm[i]]

\* the task ends with this assignment, or goes on
Close(tm, more) == IF more THEN tm ELSE [i \in DOMAIN tm |-> [tm[i] EXCEPT !.open = FALSE]]

\* a script's assignment of a property: the assignments of one task follow one another
\* with no timer callback and no promise continuation between them
Assigned(name, val, same, more) ==
    /\ micro = <<>>
    /\ inTask' = more
    /\ touched' = IF more THEN touched \/ name \in {"type", "angle"} ELSE FALSE
    /\ boundary' = IF more THEN boundary ELSE attrs'
    /\ lastOp' = [prop |-> name, val |-> val, same |-> same, camera |-> camera]
    /\ UNCHANGED <<runs, stereoData, scene, raycaster, prevNextButtons, pairs, opacity,
                   animating, warnings, micro, settling>>
    /\ UNCHANGED <<gazeVars, vrVars>>

SetType(val, more) ==
    /\ attrs' = Reflect(attrs, "type", val)
    /\ timers' = Close(Mark(timers), more)
    /\ UNCHANGED camera
    /\ Assigned("type", val, FALSE, more)

SetAngle(val, more) ==
    /\ attrs' = Reflect(attrs, "angle", val)
    /\ timers' = Close(Mark(timers), more)
    /\ UNCHANGED camera
    /\ Assigned("angle", val, FALSE, more)

\* (as SetSrc, without the early return on an unchanged value)
SetSrcAlways(val, more) ==
    /\ Len(timers) + Len(runs) < MaxRuns
    /\ attrs' = Reflect(attrs, "src", val)
    /\ timers' = Close(Schedule(timers, "src"), more)
    /\ UNCHANGED camera
    /\ Assigned("src", val, StrictEquals(getAttribute(attrs, "src"), val), more)

\* (as SetSrc, calling parseImageAndInitialize3DScene at once, with no timer)
SetSrcSync(val, more) ==
    /\ micro = <<>>
    /\ IF StrictEquals(getAttribute(attrs, "src"), val)
       THEN /\ camera' = IF camera # "none" THEN "home" ELSE camera
            /\ UNCHANGED <<attrs, runs, stereoData, opacity, micro>>
       ELSE /\ Len(timers) + Len(runs) < MaxRuns
            /\ attrs' = Reflect(attrs, "src", val)
            /\ LET r == NewRun("timer", [by |-> "src", with |-> "no"], attrs',
                               IF more THEN boundary ELSE attrs')
               IN  /\ runs' = Append(runs, r)
                   /\ stereoData' = IF r.call.fn = "none" THEN Placeholder ELSE stereoData
                   /\ micro' = IF r.pc = "parsed" THEN <<Len(runs) + 1>> ELSE <<>>
            /\ opacity' = "0"
            /\ UNCHANGED camera
    /\ timers' = Close(timers, more)
    /\ inTask' = more
    /\ touched' = IF more THEN touched ELSE FALSE
    /\ boundary' = IF more THEN boundary ELSE attrs'
    /\ lastOp' = [prop |-> "src", val |-> val,
                  same |-> StrictEquals(getAttribute(attrs, "src"), val), camera |-> camera]
    /\ UNCHANGED <<scene, raycaster, prevNextButtons, pairs, animating, warnings, settling>>
    /\ UNCHANGED <<gazeVars, vrVars>>

SetSrc(val, more) ==
    /\ IF StrictEquals(getAttribute(attrs, "src"), val)
       THEN /\ camera' = IF camera # "none" THEN "home" ELSE camera
            /\ timers' = Close(timers, more)
            /\ UNCHANGED attrs
       ELSE /\ Len(timers) + Len(runs) < MaxRuns
            /\ attrs' = Reflect(attrs, "src", val)
            /\ timers' = Close(Schedule(timers, "src"), more)
            /\ UNCHANGED camera
    /\ Assigned("src", val, StrictEquals(getAttribute(attrs, "src"), val), more)

SetBackImageSrc(val, more) ==
    /\ Len(timers) + Len(runs) < MaxRuns
    /\ attrs' = Reflect(attrs, "backImageSrc", val)
    /\ timers' = Close(Schedule(timers, "backImageSrc"), more)
    /\ UNCHANGED camera
    /\ Assigned("backImageSrc", val, FALSE, more)

\* a task begins only when the last one has ended and the microtask queue is empty
Idle == ~inTask /\ micro = <<>>

\* the timer callback of a setter
TimerFire ==
    /\ Idle
    /\ timers # <<>>
    /\ LET r == NewRun("timer", Head(timers), attrs, boundary)
       IN  /\ runs' = Append(runs, r)
           /\ stereoData' = IF r.call.fn = "none" THEN Placeholder ELSE stereoData
           /\ micro' = IF r.pc = "parsed" THEN <<Len(runs) + 1>> ELSE <<>>
    /\ timers' = Tail(timers)
    /\ opacity' = "0"
    /\ settling' = FALSE
    /\ lastOp' = NoOp
    /\ UNCHANGED <<attrs, scene, camera, raycaster, prevNextButtons, pairs, animating,
                   warnings, inTask, touched, boundary>>
    /\ UNCHANGED <<gazeVars, vrVars>>

UnchangedScript ==
    /\ lastOp' = NoOp
    /\ UNCHANGED <<attrs, timers, inTask, touched, boundary>>

\* a step of parseImageAndInitialize3DScene: nothing of the gaze, nothing of the VR button
RunOnly == UnchangedScript /\ UNCHANGED <<gazeVars, vrVars>>

InQueue(i) == \E k \in DOMAIN micro : micro[k] = i

\* the browser, or the imported code, settles the promise a call awaits: its
\* continuation is queued.  One task may settle the promises of several calls.
Settle(i) ==
    /\ ~inTask
    /\ micro = <<>> \/ settling
    /\ runs[i].pc \in {"exif", "parser"}
    /\ ~InQueue(i)
    /\ micro' = Append(micro, i)
    /\ settling' = TRUE
    /\ UNCHANGED <<runs, stereoData, scene, camera, raycaster, prevNextButtons, pairs,
                   opacity, animating, warnings>>
    /\ RunOnly

\* the continuation at the head of the microtask queue is the one that runs
Turn(i) == ~inTask /\ micro # <<>> /\ Head(micro) = i

\* exifr.parse() has resolved, with or without the left eye's XMP
ExifDone(i, hasGImage) ==
    /\ Turn(i)
    /\ runs[i].pc = "exif"
    /\ runs' = [runs EXCEPT ![i] =
                  [@ EXCEPT !.pc = "parser",
                            !.call = ParseAfterExif(attrs, hasGImage),
                            !.ncalls = @ + 1,
                            !.nwarn = IF hasGImage THEN @ ELSE @ + 1,
                            !.gimage = IF hasGImage THEN "yes" ELSE "no",
                            !.mixed = @ \/ attrs # boundary]]
    /\ warnings' = IF hasGImage THEN warnings ELSE warnings + 1
    /\ micro' = Tail(micro)
    /\ settling' = FALSE
    /\ UNCHANGED <<stereoData, scene, camera, raycaster, prevNextButtons, pairs, opacity,
                   animating>>
    /\ RunOnly

\* the parser's promise has resolved: this.stereoData = await parse...(...)
ParserDone(i) ==
    /\ Turn(i)
    /\ runs[i].pc = "parser"
    /\ stereoData' = Parsed(runs[i].call)
    /\ runs' = [runs EXCEPT ![i].pc = "parsed"]
    /\ micro' = Append(Tail(micro), i)
    /\ settling' = FALSE
    /\ UNCHANGED <<scene, camera, raycaster, prevNextButtons, pairs, opacity, animating,
                   warnings>>
    /\ RunOnly

\* exifr's or the parser's promise has rejected: parse() throws and the call ends there
ParseFail(i) ==
    /\ Turn(i)
    /\ runs[i].pc \in {"exif", "parser"}
    /\ runs' = [runs EXCEPT ![i].pc = "failed"]
    /\ micro' = Tail(micro)
    /\ settling' = FALSE
    /\ UNCHANGED <<stereoData, scene, camera, raycaster, prevNextButtons, pairs, opacity,
                   animating, warnings>>
    /\ RunOnly

\* the "curious human" image: if (this.angle === "180" && this.backImageSrc)
BackImage(a) ==
    IF StrictEquals(Getter(a, "angle"), Str("180")) /\ ToBoolean(Getter(a, "backImageSrc"))
    THEN Getter(a, "backImageSrc")
    ELSE JSNull

\* initialize3DScene(): a new scene of the two eyes of this.stereoData
initialize3DScene(i) ==
    [id |-> i, data |-> stereoData, back |-> BackImage(attrs), buttons |-> <<>>]

\* after await this.parse(): initialize3DScene(), up to its await
AfterParse(i) ==
    /\ Turn(i)
    /\ runs[i].pc = "parsed"
    /\ scene' = initialize3DScene(i)
    /\ runs' = [runs EXCEPT ![i].pc = "scened"]
    /\ micro' = Append(Tail(micro), i)
    /\ settling' = FALSE
    /\ UNCHANGED <<stereoData, camera, raycaster, prevNextButtons, pairs, opacity,
                   animating, warnings>>
    /\ RunOnly

\* addPrevNextButtons(): a new pair of groups, named 'prev' and 'next', kept in
\* this.prevNextButtons and added to this.scene
addPrevNextButtons(sc) == [sc EXCEPT !.buttons = Append(@, pairs + 1)]

\* after await this.initialize3DScene(): the camera, the buttons, the opacity
AfterScene(i) ==
    /\ Turn(i)
    /\ runs[i].pc = "scened"
    /\ camera' = IF camera # "none" THEN "home" ELSE camera
    /\ IF camera # "none"
       THEN /\ scene' = addPrevNextButtons(scene)
            /\ prevNextButtons' = pairs + 1
            /\ pairs' = pairs + 1
       ELSE UNCHANGED <<scene, prevNextButtons, pairs>>
    /\ opacity' = "1"
    /\ runs' = [runs EXCEPT ![i].pc = IF runs[i].kind = "init" THEN "initwait" ELSE "done"]
    /\ micro' = IF runs[i].kind = "init" THEN Append(Tail(micro), i) ELSE Tail(micro)
    /\ settling' = FALSE
    /\ UNCHANGED <<stereoData, raycaster, animating, warnings>>
    /\ RunOnly

(***************************************************************************)
(* The gaze dwell: prevNextTest(), updatePrevNextRing() and the timeout    *)
(* callbacks, run by the animation loop of animate().                      *)
(***************************************************************************)
Min(a, b) == IF a < b THEN a ELSE b

NoTimer == [id |-> 0, type |-> "none", armedBy |-> "none", elapsedMS |-> 0, away |-> FALSE]

NoEvent == [type |-> "none", timer |-> NoTimer]

NoRing == [side |-> "none", shownMS |-> 0]

\* what the ray from the camera intersects in one frame, nearest first, each object
\* by the name of its parent: the ring and the disc of a button are children of the
\* group named 'prev' or 'next', the meshes of its icon of a group without a name
GazeHits == {<<>>, <<"prev">>, <<"next">>, <<"", "prev">>, <<"next", "">>}

\* the button among the objects a ray intersects
Looked(hits) ==
    IF \E k \in DOMAIN hits : hits[k] = "prev" THEN "prev"
    ELSE IF \E k \in DOMAIN hits : hits[k] = "next" THEN "next"
    ELSE "none"

\* (as EventFor, with stereoImgGoToNext in both callbacks)
EventForNextOnly(name) == "stereoImgGoToNext"

\* the event the timeout callback of a branch dispatches
EventFor(name) == IF name = "prev" THEN "stereoImgGoToPrev" ELSE "stereoImgGoToNext"

\* the id setTimeout returns: one no pending timeout has
FreshId(d) == CHOOSE n \in 1..(Cardinality(d) + 1) : \A t \in d : t.id # n

\* clearTimeout(id)
clearTimeout(d, id) == {t \in d : t.id # id}

\* (as HitStep, arming a timeout whether or not one is pending)
HitStepAlwaysArms(st, name) ==
    IF name \in {"prev", "next"}
    THEN LET id == FreshId(st.dwell)
         IN  [st EXCEPT !.forPrev = IF name = "prev" THEN "true" ELSE "false",
                        !.since = 0,
                        !.timer = id,
                        !.dwell = @ \cup {[id |-> id, type |-> EventFor(name),
                                           armedBy |-> name, elapsedMS |-> 0,
                                           away |-> FALSE]}]
    ELSE st

\* one turn of the for loop of prevNextTest, on the object whose parent has this name
HitStep(st, name) ==
    IF name \in {"prev", "next"}
    THEN LET st1 == [st EXCEPT !.forPrev = IF name = "prev" THEN "true" ELSE "false"]
             id == FreshId(st.dwell)
         IN  IF st1.timer = 0
             THEN [st1 EXCEPT !.since = 0,
                              !.timer = id,
                              !.dwell = @ \cup {[id |-> id, type |-> EventFor(name),
                                                 armedBy |-> name, elapsedMS |-> 0,
                                                 away |-> FALSE]}]
             ELSE st1
    ELSE st

RECURSIVE HitLoop(_, _)
HitLoop(st, hits) ==
    IF hits = <<>> THEN st ELSE HitLoop(HitStep(st, Head(hits)), Tail(hits))

\* (as prevNextTest, without the clearTimeout of a frame that intersects nothing)
prevNextTestNoCancel(st, hits, ready) ==
    IF ~ready THEN st ELSE HitLoop(st, hits)

prevNextTest(st, hits, ready) ==
    IF ~ready
    THEN st
    ELSE IF hits = <<>> /\ st.timer # 0
         THEN [st EXCEPT !.dwell = clearTimeout(@, st.timer), !.timer = 0]
         ELSE HitLoop(st, hits)

\* updatePrevNextRing(): the ring is removed, and drawn anew while a timer is pending
updatePrevNextRing(st) ==
    IF st.timer # 0
    THEN [side |-> IF st.forPrev = "true" THEN "prev" ELSE "next", shownMS |-> st.since]
    ELSE NoRing

\* a step of the gaze dwell: nothing of the element, nothing of the VR button
GazeOnly == UNCHANGED <<elemVars, vrVars>>

\* one frame of the animation loop
Frame(hits) ==
    /\ animating
    /\ LET ready == scene.id # 0 /\ camera # "none" /\ raycaster /\ prevNextButtons # 0
           seen == IF hits = <<>> THEN {[t EXCEPT !.away = TRUE] : t \in dwell} ELSE dwell
           st == prevNextTest([forPrev |-> timerRingForPrev, timer |-> prevNextTimer,
                               dwell |-> seen, since |-> sinceStartMS], hits, ready)
       IN  /\ timerRingForPrev' = st.forPrev
           /\ prevNextTimer' = st.timer
           /\ dwell' = st.dwell
           /\ sinceStartMS' = st.since
           /\ timerRing' = updatePrevNextRing(st)
    /\ gaze' = Looked(hits)
    /\ dispatched' = NoEvent
    /\ GazeOnly

\* time passes
Tick ==
    /\ animating
    /\ dwell' = {[t EXCEPT !.elapsedMS = Min(@ + TickMS, PREV_NEXT_TIMEOUT_MS)] : t \in dwell}
    /\ sinceStartMS' = Min(sinceStartMS + TickMS, PREV_NEXT_TIMEOUT_MS)
    /\ dispatched' = NoEvent
    /\ UNCHANGED <<prevNextTimer, timerRingForPrev, timerRing, gaze>>
    /\ GazeOnly

\* (as DwellExpire, the callback leaving this.prevNextTimer as it is)
DwellExpireKeepsTimer(t) ==
    /\ t \in dwell
    /\ t.elapsedMS >= PREV_NEXT_TIMEOUT_MS
    /\ dwell' = clearTimeout(dwell \ {t}, prevNextTimer)
    /\ dispatched' = [type |-> t.type, timer |-> t]
    /\ UNCHANGED <<prevNextTimer, sinceStartMS, timerRingForPrev, timerRing, gaze>>
    /\ GazeOnly

\* a dwell timeout is due and its callback runs
DwellExpire(t) ==
    /\ t \in dwell
    /\ t.elapsedMS >= PREV_NEXT_TIMEOUT_MS
    /\ dwell' = clearTimeout(dwell \ {t}, prevNextTimer)
    /\ prevNextTimer' = 0
    /\ dispatched' = [type |-> t.type, timer |-> t]
    /\ UNCHANGED <<sinceStartMS, timerRingForPrev, timerRing, gaze>>
    /\ GazeOnly

(***************************************************************************)
(* VRButton.createButton(renderer) and the handlers it installs.           *)
(***************************************************************************)
\* before init() has created it
NoButton ==
    [tag |-> "none", id |-> "", display |-> "", cursor |-> "", textContent |-> "",
     onclick |-> "null", onmouseenter |-> "null", onmouseleave |-> "null"]

\* stylizeElement(element): of the styles it sets, display is the one read later
stylizeElement(b) == [b EXCEPT !.display = ""]

disableButton(b) ==
    [b EXCEPT !.display = "none", !.onmouseenter = "null", !.onmouseleave = "null",
              !.onclick = "null"]

\* showEnterVR(), but for its currentSession = null
showEnterVR(b) ==
    [b EXCEPT !.display = "", !.cursor = "pointer", !.textContent = "View in 3D VR",
              !.onclick = "toggle"]

\* (as showWebXRNotFound, setting the button up as showEnterVR does)
showWebXRNotFoundAsEnter(b) == showEnterVR(b)

showWebXRNotFound(b) == disableButton(b)

\* what createButton returns, and the state of the query it has started
createButton(hasXR) ==
    IF hasXR
    THEN [button |-> stylizeElement([NoButton EXCEPT !.tag = "button", !.id = "VRButton",
                                                     !.display = "none"]),
          support |-> "pending"]
    ELSE [button |-> [stylizeElement([NoButton EXCEPT !.tag = "a",
                                        !.textContent = "VR Mode Unavailable (?)"])
                        EXCEPT !.display = "none"],
          support |-> "none"]

\* a step of the VR button: nothing of the element, nothing of the gaze
VROnly == UNCHANGED <<elemVars, gazeVars, navigatorXR>>

\* the 'sessiongranted' listener of registerSessionGrantedListener()
SessionGranted ==
    /\ navigatorXR
    /\ ~xrSessionIsGranted
    /\ xrSessionIsGranted' = TRUE
    /\ UNCHANGED <<button, support, currentSession, requests, requestCalls, sessions, live,
                   ending, starting, listeners, xrWarnings, clickedSince>>
    /\ VROnly

\* isSessionSupported('immersive-vr') resolves: the .then() callback of createButton
SupportResolves(supported) ==
    /\ support = "pending"
    /\ support' = IF supported THEN "supported" ELSE "unsupported"
    /\ button' = IF supported THEN showEnterVR(button) ELSE showWebXRNotFound(button)
    /\ currentSession' = 0
    /\ IF supported /\ xrSessionIsGranted
       THEN \* button.click(): currentSession === null, so a session is requested
            /\ requests' = requests + 1
            /\ requestCalls' = requestCalls + 1
       ELSE UNCHANGED <<requests, requestCalls>>
    /\ UNCHANGED <<xrSessionIsGranted, sessions, live, ending, starting, listeners,
                   xrWarnings, clickedSince>>
    /\ VROnly

\* (as showVRNotAllowed, without disableButton())
showVRNotAllowedWarnOnly ==
    /\ button' = button
    /\ xrWarnings' = xrWarnings + 1

showVRNotAllowed ==
    /\ button' = disableButton(button)
    /\ xrWarnings' = xrWarnings + 1

\* isSessionSupported('immersive-vr') rejects: .catch(showVRNotAllowed)
SupportRejects ==
    /\ support = "pending"
    /\ support' = "rejected"
    /\ showVRNotAllowed
    /\ UNCHANGED <<xrSessionIsGranted, currentSession, requests, requestCalls, sessions,
                   live, ending, starting, listeners, clickedSince>>
    /\ VROnly

\* a click on the button, the user's or a script's: button.onclick, if there is one
Click ==
    /\ button.tag # "none"
    /\ clickedSince' = (clickedSince \/ support # "pending")
    /\ IF button.onclick = "null"
       THEN UNCHANGED <<requests, requestCalls, ending>>
       ELSE IF currentSession = 0
            THEN /\ requestCalls < MaxRequests
                 /\ requests' = requests + 1
                 /\ requestCalls' = requestCalls + 1
                 /\ UNCHANGED ending
            ELSE \* currentSession.end(): an ended session's end() only rejects
                 /\ ending' = ending \cup ({currentSession} \cap live)
                 /\ UNCHANGED <<requests, requestCalls>>
    /\ UNCHANGED <<xrSessionIsGranted, button, support, currentSession, sessions, live,
                   starting, listeners, xrWarnings>>
    /\ VROnly

\* requestSession resolves with a new session, which it does only when no immersive
\* session is active: onSessionStarted(session), up to its await
RequestResolves ==
    /\ requests > 0
    /\ live = {}
    /\ sessions < MaxSessions
    /\ LET session == sessions + 1
       IN  /\ sessions' = session
           /\ live' = {session}
           /\ listeners' = listeners \cup {session}
           /\ starting' = starting \cup {session}
    /\ requests' = requests - 1
    /\ UNCHANGED <<xrSessionIsGranted, button, support, currentSession, requestCalls,
                   ending, xrWarnings, clickedSince>>
    /\ VROnly

\* requestSession rejects: there is no handler for it
RequestRejects ==
    /\ requests > 0
    /\ requests' = requests - 1
    /\ UNCHANGED <<xrSessionIsGranted, button, support, currentSession, requestCalls,
                   sessions, live, ending, starting, listeners, xrWarnings, clickedSince>>
    /\ VROnly

\* renderer.xr.setSession(session) resolves: the rest of onSessionStarted
SetSessionDone(session) ==
    /\ session \in starting
    /\ starting' = starting \ {session}
    /\ button' = [button EXCEPT !.textContent = "Exit VR"]
    /\ currentSession' = session
    /\ UNCHANGED <<xrSessionIsGranted, support, requests, requestCalls, sessions, live,
                   ending, listeners, xrWarnings, clickedSince>>
    /\ VROnly

\* renderer.xr.setSession(session) rejects: onSessionStarted ends at its await
SetSessionFails(session) ==
    /\ session \in starting
    /\ starting' = starting \ {session}
    /\ UNCHANGED <<xrSessionIsGranted, button, support, currentSession, requests,
                   requestCalls, sessions, live, ending, listeners, xrWarnings,
                   clickedSince>>
    /\ VROnly

\* the session ends, by end() or by the user or the system: its 'end' event.
\* onSessionEnded throws at currentSession.removeEventListener when currentSession
\* is still null, and changes nothing.
SessionEnds(session) ==
    /\ session \in live
    /\ live' = live \ {session}
    /\ ending' = ending \ {session}
    /\ IF session \in listeners /\ currentSession # 0
       THEN /\ listeners' = listeners \ {currentSession}
            /\ button' = [button EXCEPT !.textContent = "View in 3D VR"]
            /\ currentSession' = 0
       ELSE UNCHANGED <<listeners, button, currentSession>>
    /\ UNCHANGED <<xrSessionIsGranted, support, requests, requestCalls, sessions, starting,
                   xrWarnings, clickedSince>>
    /\ VROnly

\* init(), after await this.parseImageAndInitialize3DScene(): the renderer, the camera,
\* the raycaster, the buttons, the controls, the VR button, the animation loop
InitRest ==
    /\ Turn(1)
    /\ runs[1].pc = "initwait"
    /\ camera' = "home"
    /\ raycaster' = TRUE
    /\ scene' = addPrevNextButtons(scene)
    /\ prevNextButtons' = pairs + 1
    /\ pairs' = pairs + 1
    /\ animating' = TRUE
    /\ runs' = [runs EXCEPT ![1].pc = "done"]
    /\ micro' = Tail(micro)
    /\ settling' = FALSE
    /\ button' = createButton(navigatorXR).button
    /\ support' = createButton(navigatorXR).support
    /\ UNCHANGED <<stereoData, opacity, warnings>>
    /\ UNCHANGED <<navigatorXR, xrSessionIsGranted, currentSession, requests, requestCalls,
                   sessions, live, ending, starting, listeners, xrWarnings, clickedSince>>
    /\ UNCHANGED gazeVars
    /\ UnchangedScript

\* OrbitControls: the user drags the view and the camera leaves (0, 0, 0.1)
UserOrbit ==
    /\ Idle
    /\ animating
    /\ camera = "home"
    /\ camera' = "moved"
    /\ settling' = FALSE
    /\ UNCHANGED <<stereoData, scene, raycaster, prevNextButtons, pairs, opacity,
                   animating, warnings, runs, micro>>
    /\ RunOnly

(***************************************************************************)
(* The element after its constructor: init() has run up to the first await *)
(* of parse().                                                             *)
(***************************************************************************)
AttrStates(srcs, types, angles, backs) ==
    {[k \in AttrKeys |->
         CASE k = "src" -> s [] k = "type" -> t [] k = "angle" -> g [] OTHER -> b] :
       s \in srcs, t \in types, g \in angles, b \in backs}

InitTimer == [by |-> "init", open |-> FALSE, with |-> "no"]

\* no frame has run: the fields of the dwell are still undefined
InitGaze ==
    /\ prevNextTimer = 0
    /\ sinceStartMS = 0
    /\ timerRingForPrev = "undefined"
    /\ timerRing = NoRing
    /\ dwell = {}
    /\ dispatched = NoEvent
    /\ gaze = "none"

\* the module has been loaded and no button created
InitVR(hasXR) ==
    /\ navigatorXR = hasXR
    /\ xrSessionIsGranted = FALSE
    /\ button = NoButton
    /\ support = "none"
    /\ currentSession = 0
    /\ requests = 0
    /\ requestCalls = 0
    /\ sessions = 0
    /\ live = {}
    /\ ending = {}
    /\ starting = {}
    /\ listeners = {}
    /\ xrWarnings = 0
    /\ clickedSince = FALSE

InitElem(a) ==
    /\ attrs = a
    /\ timers = <<>>
    /\ runs = <<NewRun("init", InitTimer, a, a)>>
    /\ stereoData = (IF ParseBegin(a).fn = "none" THEN Placeholder ELSE NoData)
    /\ scene = NoScene
    /\ camera = "none"
    /\ raycaster = FALSE
    /\ prevNextButtons = 0
    /\ pairs = 0
    /\ opacity = "0"
    /\ animating = FALSE
    /\ warnings = 0
    /\ micro = (IF ParseBegin(a).fn = "none" THEN <<1>> ELSE <<>>)
    /\ settling = FALSE
    /\ inTask = FALSE
    /\ touched = FALSE
    /\ boundary = a
    /\ lastOp = NoOp
    /\ InitGaze
    /\ InitVR(TRUE)

RunStep ==
    \/ TimerFire
    \/ \E i \in DOMAIN runs : Settle(i)
    \/ \E i \in DOMAIN runs : \E g \in BOOLEAN : ExifDone(i, g)
    \/ \E i \in DOMAIN runs : ParserDone(i)
    \/ \E i \in DOMAIN runs : ParseFail(i)
    \/ \E i \in DOMAIN runs : AfterParse(i)
    \/ \E i \in DOMAIN runs : AfterScene(i)
    \/ InitRest
    \/ UserOrbit

(***************************************************************************)
(* SpecAttr: the accessors alone, on every value a script may assign.      *)
(***************************************************************************)
InitAttr ==
    \E a \in AttrStates({JSNull, Str("a.jpg")}, {JSNull}, {JSNull}, {JSNull}) : InitElem(a)

NextAttr ==
    \/ \E v \in JSVals : SetSrc(v, FALSE)
    \/ \E v \in JSVals : SetType(v, FALSE)
    \/ \E v \in JSVals : SetAngle(v, FALSE)
    \/ \E v \in JSVals : SetBackImageSrc(v, FALSE)
    \/ \E i \in DOMAIN runs : Settle(i)
    \/ \E i \in DOMAIN runs : \E g \in BOOLEAN : ExifDone(i, g)
    \/ \E i \in DOMAIN runs : ParserDone(i)
    \/ \E i \in DOMAIN runs : ParseFail(i)
    \/ \E i \in DOMAIN runs : AfterParse(i)
    \/ \E i \in DOMAIN runs : AfterScene(i)
    \/ InitRest
    \/ UserOrbit

SpecAttr == InitAttr /\ [][NextAttr]_vars

(***************************************************************************)
(* SpecTask: script tasks that assign several properties, and the timer    *)
(* callbacks they schedule.                                                *)
(***************************************************************************)
InitTask == \E a \in AttrStates({Str("a.jpg")}, {JSNull}, {JSNull}, {JSNull}) : InitElem(a)

NextTask ==
    \/ \E v \in SrcVals : \E more \in BOOLEAN : SetSrc(v, more)
    \/ \E v \in {Str("vr")} : \E more \in BOOLEAN : SetType(v, more)
    \/ \E v \in AngleVals : \E more \in BOOLEAN : SetAngle(v, more)
    \/ TimerFire
    \/ \E i \in DOMAIN runs : Settle(i)
    \/ \E i \in DOMAIN runs : \E g \in BOOLEAN : ExifDone(i, g)
    \/ \E i \in DOMAIN runs : ParserDone(i)
    \/ \E i \in DOMAIN runs : AfterParse(i)
    \/ \E i \in DOMAIN runs : AfterScene(i)
    \/ InitRest

SpecTask == InitTask /\ [][NextTask]_vars

(***************************************************************************)
(* SpecElem: the element's life: assignments of src and backImageSrc, and  *)
(* the overlapping calls of parseImageAndInitialize3DScene they start.     *)
(***************************************************************************)
InitElemSpec ==
    \E a \in AttrStates({JSNull, Str("a.jpg")}, {JSNull, Str("vr")}, {JSNull, Str("180")},
                        {JSNull}) :
        InitElem(a)

NextElem ==
    \/ \E v \in SrcVals \cup {JSNull} : SetSrc(v, FALSE)
    \/ \E v \in BackVals : SetBackImageSrc(v, FALSE)
    \/ RunStep

SpecElem == InitElemSpec /\ [][NextElem]_vars

(***************************************************************************)
(* SpecParse: parse() on every type the code tells apart.                  *)
(***************************************************************************)
InitParse ==
    \E a \in AttrStates({JSNull, Str("a.jpg")}, TypeVals \cup {JSNull}, {JSNull, Str("180")},
                        {JSNull}) :
        InitElem(a)

NextParse ==
    \/ \E v \in {Str("b.jpg"), JSNull} : SetSrc(v, FALSE)
    \/ RunStep

SpecParse == InitParse /\ [][NextParse]_vars

(***************************************************************************)
(* The element once init() has run to its end, with no src: the            *)
(* placeholder scene, the camera, the raycaster, the buttons, the VR       *)
(* button and the animation loop.                                          *)
(***************************************************************************)
NoAttrs == [k \in AttrKeys |-> JSNull]

InitReady(hasXR) ==
    /\ attrs = NoAttrs
    /\ timers = <<>>
    /\ runs = <<[NewRun("init", InitTimer, NoAttrs, NoAttrs) EXCEPT !.pc = "done"]>>
    /\ stereoData = Placeholder
    /\ scene = [id |-> 1, data |-> Placeholder, back |-> JSNull, buttons |-> <<1>>]
    /\ camera = "home"
    /\ raycaster = TRUE
    /\ prevNextButtons = 1
    /\ pairs = 1
    /\ opacity = "1"
    /\ animating = TRUE
    /\ warnings = 0
    /\ micro = <<>>
    /\ settling = FALSE
    /\ inTask = FALSE
    /\ touched = FALSE
    /\ boundary = NoAttrs
    /\ lastOp = NoOp
    /\ InitGaze
    /\ navigatorXR = hasXR
    /\ xrSessionIsGranted = FALSE
    /\ button = createButton(hasXR).button
    /\ support = createButton(hasXR).support
    /\ currentSession = 0
    /\ requests = 0
    /\ requestCalls = 0
    /\ sessions = 0
    /\ live = {}
    /\ ending = {}
    /\ starting = {}
    /\ listeners = {}
    /\ xrWarnings = 0
    /\ clickedSince = FALSE

(***************************************************************************)
(* SpecVR: the VR button, the WebXR promises and the sessions' events.     *)
(***************************************************************************)
InitVRSpec == \E hasXR \in BOOLEAN : InitReady(hasXR)

NextVR ==
    \/ SessionGranted
    \/ \E supported \in BOOLEAN : SupportResolves(supported)
    \/ SupportRejects
    \/ Click
    \/ RequestResolves
    \/ RequestRejects
    \/ \E session \in starting : SetSessionDone(session)
    \/ \E session \in starting : SetSessionFails(session)
    \/ \E session \in live : SessionEnds(session)

SpecVR == InitVRSpec /\ [][NextVR]_vars

(***************************************************************************)
(* SpecGaze: the frames of the animation loop, the clock and the dwell     *)
(* timeouts.                                                               *)
(***************************************************************************)
InitGazeSpec == InitReady(TRUE)

NextGaze ==
    \/ \E hits \in GazeHits : Frame(hits)
    \/ Tick
    \/ \E t \in dwell : DwellExpire(t)

SpecGaze == InitGazeSpec /\ [][NextGaze]_vars

\* a frame on which the ray intersects what it did on the frame before
SameGazeFrame == \E hits \in GazeHits : Looked(hits) = gaze /\ Frame(hits)

\* the animation loop goes on calling its callback wherever the user looks, time
\* passes, and the browser runs the callback of a timeout that is due; where the user
\* looks next is up to the user
SpecGazeFair ==
    /\ InitGazeSpec
    /\ [][NextGaze]_vars
    /\ WF_vars(SameGazeFrame)
    /\ WF_vars(Tick)
    /\ WF_vars(\E t \in dwell : DwellExpire(t))

(***************************************************************************)
(* SpecOverlap: two calls of parseImageAndInitialize3DScene scheduled on   *)
(* an element whose init() has run to its end: the element was created     *)
(* with no src, and a script has assigned "a.jpg" and then "b.jpg" to src. *)
(***************************************************************************)
SrcTimer == [by |-> "src", open |-> FALSE, with |-> "no"]

InitOverlap ==
    /\ attrs = [NoAttrs EXCEPT !["src"] = Str("b.jpg")]
    /\ timers = <<SrcTimer, SrcTimer>>
    /\ runs = <<[NewRun("init", InitTimer, NoAttrs, NoAttrs) EXCEPT !.pc = "done"]>>
    /\ stereoData = Placeholder
    /\ scene = [id |-> 1, data |-> Placeholder, back |-> JSNull, buttons |-> <<1>>]
    /\ camera = "home"
    /\ raycaster = TRUE
    /\ prevNextButtons = 1
    /\ pairs = 1
    /\ opacity = "1"
    /\ animating = TRUE
    /\ warnings = 0
    /\ micro = <<>>
    /\ settling = FALSE
    /\ inTask = FALSE
    /\ touched = FALSE
    /\ boundary = [NoAttrs EXCEPT !["src"] = Str("b.jpg")]
    /\ lastOp = [prop |-> "src", val |-> Str("b.jpg"), same |-> FALSE, camera |-> "home"]
    /\ InitGaze
    /\ navigatorXR = TRUE
    /\ xrSessionIsGranted = FALSE
    /\ button = createButton(TRUE).button
    /\ support = createButton(TRUE).support
    /\ currentSession = 0
    /\ requests = 0
    /\ requestCalls = 0
    /\ sessions = 0
    /\ live = {}
    /\ ending = {}
    /\ starting = {}
    /\ listeners = {}
    /\ xrWarnings = 0
    /\ clickedSince = FALSE

NextOverlap ==
    \/ \E v \in {Str("vr")} : SetType(v, FALSE)
    \/ TimerFire
    \/ \E i \in DOMAIN runs : Settle(i)
    \/ \E i \in DOMAIN runs : \E g \in BOOLEAN : ExifDone(i, g)
    \/ \E i \in DOMAIN runs : ParserDone(i)
    \/ \E i \in DOMAIN runs : ParseFail(i)
    \/ \E i \in DOMAIN runs : AfterParse(i)
    \/ \E i \in DOMAIN runs : AfterScene(i)
    \/ UserOrbit

SpecOverlap == InitOverlap /\ [][NextOverlap]_vars

(***************************************************************************)
(* The claims.                                                             *)
(***************************************************************************)
Runs == DOMAIN runs

\* what the attribute of an assigned value reads back as
Reflected(val) == IF ToBoolean(val) THEN ToDOMString(val) ELSE JSNull

\* no XR session is live, none is requested and none is being set up
Quiescent == live = {} /\ requests = 0 /\ starting = {}

\* C1 (as claimed): once isSessionSupported has resolved true, whenever no XR session is
\* live or pending currentSession is null and the button reads 'View in 3D VR', and
\* whenever currentSession is not null the button reads 'Exit VR', after any
\* interleaving of clicks, requestSession resolutions, setSession completions and 'end'
\* events.
C1_ButtonTracksSession ==
    support = "supported" =>
        /\ Quiescent => currentSession = 0 /\ button.textContent = "View in 3D VR"
        /\ currentSession # 0 => button.textContent = "Exit VR"

\* C2: once isSessionSupported has resolved false the button is not displayed, has no
\* onclick, onmouseenter or onmouseleave handler, and no click, before or after, has
\* called requestSession.
C2_UnsupportedDisabled ==
    support = "unsupported" =>
        /\ button.display = "none"
        /\ button.onclick = "null"
        /\ button.onmouseenter = "null"
        /\ button.onmouseleave = "null"
        /\ requestCalls = 0
        /\ requests = 0
        /\ sessions = 0

\* VR is not supported, a session had been granted to the page before, and the button
\* has been clicked since
C2_Witness ==
    /\ support = "unsupported"
    /\ xrSessionIsGranted
    /\ clickedSince

\* C3: once isSessionSupported has rejected, exactly one warning has been logged, the
\* button is disabled as in the unsupported case and no session has been requested; no
\* warning is logged otherwise.
C3_RejectedWarnsOnce ==
    /\ support = "rejected" =>
         /\ xrWarnings = 1
         /\ button.display = "none"
         /\ button.onclick = "null"
         /\ button.onmouseenter = "null"
         /\ button.onmouseleave = "null"
         /\ requestCalls = 0
         /\ requests = 0
         /\ sessions = 0
    /\ support # "rejected" => xrWarnings = 0

\* the query has rejected, and the button has been clicked since
C3_Witness ==
    /\ support = "rejected"
    /\ xrWarnings = 1
    /\ clickedSince

\* C4: a step dispatches stereoImgGoToPrev or stereoImgGoToNext only as the callback of
\* a dwell timeout that was pending, that had been pending for PREV_NEXT_TIMEOUT_MS, and
\* since whose arming no frame has intersected nothing.
C4_OnlyFullDwell ==
    [][dispatched'.type # "none" =>
         /\ dispatched'.type \in {"stereoImgGoToPrev", "stereoImgGoToNext"}
         /\ dispatched'.timer \in dwell
         /\ dispatched'.timer.elapsedMS >= PREV_NEXT_TIMEOUT_MS
         /\ ~dispatched'.timer.away]_vars

\* an event has been dispatched after a dwell during which frames drew the ring
C4_Witness ==
    /\ dispatched.type = "stereoImgGoToPrev"
    /\ dispatched.timer.elapsedMS >= PREV_NEXT_TIMEOUT_MS
    /\ timerRing.side = "prev"
    /\ timerRing.shownMS > 0

\* C5: the event dispatched is the one of the button whose intersection armed the
\* timeout, stereoImgGoToPrev for 'prev' and stereoImgGoToNext for 'next', and the
\* timeout that dispatched it is pending no more: it dispatches one event at most.
C5_EventOfArmingButton ==
    dispatched.type # "none" =>
        /\ dispatched.timer.armedBy \in {"prev", "next"}
        /\ dispatched.timer.armedBy = "prev" => dispatched.type = "stereoImgGoToPrev"
        /\ dispatched.timer.armedBy = "next" => dispatched.type = "stereoImgGoToNext"
        /\ \A t \in dwell : t.id # dispatched.timer.id
        /\ prevNextTimer = 0

\* the timeout armed on 'prev' has dispatched stereoImgGoToPrev after the gaze had
\* moved on to 'next'
C5_Witness ==
    /\ dispatched.type = "stereoImgGoToPrev"
    /\ dispatched.timer.armedBy = "prev"
    /\ timerRingForPrev = "false"
    /\ dwell = {}

\* C6: a call of parseImageAndInitialize3DScene that the src setter scheduled reads the
\* attributes only once the task that assigned src has ended: what its parse() reads
\* are the attributes as that task, or a later one, left them, never the attributes
\* midway through a task, whether type and angle were assigned before src or after it.
C6_ParseReadsAfterTask ==
    \A i \in Runs : runs[i].by = "src" => ~runs[i].mixed

\* a call scheduled by an assignment of src has run to its end and has read the type
\* assigned after src in the same task
C6_Witness ==
    \E i \in Runs :
        /\ runs[i].by = "src"
        /\ runs[i].with = "after"
        /\ runs[i].pc = "done"
        /\ runs[i].type = Str("vr")
        /\ runs[i].src = Str("b.jpg")

C8_SameSrcNoOp ==
    [][lastOp'.prop = "src" =>
         IF lastOp'.val = Getter(attrs, "src")
         THEN /\ timers' = timers
              /\ attrs' = attrs
              /\ stereoData' = stereoData
              /\ scene' = scene
              /\ runs' = runs
              /\ camera' = (IF camera = "none" THEN "none" ELSE "home")
         ELSE /\ Len(timers') = Len(timers) + 1
              /\ timers'[Len(timers')].by = "src"
              /\ runs' = runs]_vars

\* src has been assigned the value it had while the camera stood elsewhere
C8_Witness ==
    /\ lastOp.prop = "src"
    /\ lastOp.same
    /\ ToBoolean(lastOp.val)
    /\ lastOp.camera = "moved"
    /\ camera = "home"
    /\ scene.id # 0

\* the parser a parse() must have called, by the src and type it read and by the XMP
StereoTypes == {Str("left-right"), Str("top-bottom")}

C9_Selected(r) ==
    IF ~ToBoolean(r.src)
    THEN r.call = NoCall /\ r.ncalls = 0 /\ r.nwarn = 0
    ELSE IF r.type = Str("vr")
    THEN r.call = Call("parseVR", r.src, JSUndefined, JSUndefined) /\ r.nwarn = 0
    ELSE IF r.type \in StereoTypes
    THEN r.call = Call("parseStereo", r.src, r.type, Getter(attrs, "angle")) /\ r.nwarn = 0
    ELSE IF r.type = Str("anaglyph")
    THEN r.call = Call("parseAnaglyph", r.src, JSUndefined, Getter(attrs, "angle"))
         /\ r.nwarn = 0
    ELSE \/ r.gimage = "unread" /\ r.call.fn = "exifr" /\ r.ncalls = 0 /\ r.nwarn = 0
         \/ r.gimage = "yes" /\ r.call.fn = "parseVR" /\ r.nwarn = 0
         \/ /\ r.gimage = "no"
            /\ r.call.fn = "parseStereo"
            /\ r.call.type = JSUndefined
            /\ r.call.angle = Getter(attrs, "angle")
            /\ r.nwarn = 1

\* C9: the parser of a parse() is decided by the src and the type it reads and by the
\* XMP: none without src, and then stereoData is the placeholder, whose phiLength,
\* thetaStart and thetaLength are 0; parseVR for 'vr'; parseStereo with the type and the
\* angle for 'left-right' and 'top-bottom'; parseAnaglyph with the angle for 'anaglyph';
\* otherwise parseVR when the XMP holds GImage.Data, and parseStereo with the angle and
\* one warning when not.  A parse() with a src that has returned called one parser.
C9_ParserSelection ==
    /\ \A i \in Runs :
         /\ C9_Selected(runs[i])
         /\ runs[i].ncalls <= 1
         /\ ToBoolean(runs[i].src) /\ runs[i].pc \in {"parsed", "scened", "initwait", "done"}
              => runs[i].ncalls = 1 /\ IsParserCall(runs[i].call)
         /\ ~ToBoolean(runs[i].src) /\ runs[i].pc = "parsed"
              => /\ stereoData = Placeholder
                 /\ stereoData.phiLength = 0
                 /\ stereoData.thetaStart = 0
                 /\ stereoData.thetaLength = 0
    /\ warnings = Len(SelectSeq(runs, LAMBDA r : r.nwarn = 1))

\* a parse() of an image of unknown type without the XMP of a VR photo has warned
\* once, called parseStereo with the angle, and the call has run to its end
C9_Witness ==
    \E i \in Runs :
        /\ runs[i].gimage = "no"
        /\ runs[i].call = Call("parseStereo", Str("a.jpg"), JSUndefined, Str("180"))
        /\ runs[i].nwarn = 1
        /\ runs[i].pc = "done"

\* the data a parse() of the attributes a may leave
ExpectedData(a) ==
    LET c == ParseBegin(a)
    IN  IF c.fn = "none" THEN {Placeholder}
        ELSE IF c.fn = "exifr" THEN {Parsed(ParseAfterExif(a, g)) : g \in BOOLEAN}
        ELSE {Parsed(c)}

AllRunsDone == timers = <<>> /\ micro = <<>> /\ \A i \in Runs : runs[i].pc = "done"

\* C10 (as claimed): once every scheduled parseImageAndInitialize3DScene has completed,
\* stereoData and the scene are those of the current src, type and angle, whatever the
\* order in which the parsers' promises resolved
C10_LastWriteWins ==
    AllRunsDone =>
        /\ stereoData \in ExpectedData(attrs)
        /\ scene.data = stereoData
        /\ scene.back = BackImage(attrs)

\* init() has run to its end, and no parseImageAndInitialize3DScene is scheduled or
\* under way
InitDone == runs[1].pc = "done"

NoRunInProgress ==
    /\ timers = <<>>
    /\ micro = <<>>
    /\ \A i \in Runs : runs[i].pc \in {"done", "failed"}

\* C11 (as claimed): once init() has completed and no re-initialisation is in progress,
\* the scene holds exactly one pair of button groups, one named 'prev' and one named
\* 'next', and this.prevNextButtons is that pair, however the continuations of
\* overlapping calls of parseImageAndInitialize3DScene were interleaved.
C11_OnePairOfButtons ==
    InitDone /\ NoRunInProgress =>
        /\ prevNextButtons # 0
        /\ scene.buttons = <<prevNextButtons>>

\* C12 (as claimed): at most one call of navigator.xr.requestSession is outstanding at
\* any time, and none is issued while the session of an earlier one is being set up: a
\* click between the request and the assignment of currentSession requests nothing.
C12_OneRequestOutstanding ==
    /\ requests <= 1
    /\ starting # {} => requests = 0

\* C13: at most one dwell timeout is pending, and this.prevNextTimer is not null exactly
\* when one is pending, and is then its id: a timeout is armed only when prevNextTimer
\* is null, and a frame that intersects nothing and the expiry both reset it to null.
C13_OneTimerPending ==
    /\ Cardinality(dwell) <= 1
    /\ prevNextTimer # 0 <=> dwell # {}
    /\ \A t \in dwell : t.id = prevNextTimer

\* a timeout armed on 'next' is due and still pending, after frames that kept the gaze
\* on the button
C13_Witness ==
    /\ prevNextTimer # 0
    /\ \E t \in dwell :
         /\ t.id = prevNextTimer
         /\ t.armedBy = "next"
         /\ t.elapsedMS = PREV_NEXT_TIMEOUT_MS
    /\ timerRing.side = "next"
    /\ timerRing.shownMS = PREV_NEXT_TIMEOUT_MS

\* C14 (as claimed): while a dwell timeout is pending, timerRingForPrev is true exactly
\* when that timeout will dispatch stereoImgGoToPrev, and the ring, when drawn, is on
\* that side, whatever the frames have intersected, the gaze moving from one button to
\* the other between two frames included.
C14_RingAgreesWithTimer ==
    \A t \in dwell :
        /\ timerRingForPrev = "true" <=> t.type = "stereoImgGoToPrev"
        /\ timerRing.side = "prev" => t.type = "stereoImgGoToPrev"
        /\ timerRing.side = "next" => t.type = "stereoImgGoToNext"

\* C15: if from some frame on the ray intersects the same button on every frame, and
\* frames go on, time passes and due timeouts fire, then the event of that button is
\* dispatched again and again, and a timeout is armed on that button again and again:
\* each dispatch clears the timer and the next frame arms a new one.
C15_DwellFiresRepeatedly ==
    /\ <>[](gaze = "prev") =>
         /\ []<>(dispatched.type = "stereoImgGoToPrev")
         /\ []<>(\E t \in dwell : t.armedBy = "prev" /\ t.elapsedMS = 0)
    /\ <>[](gaze = "next") =>
         /\ []<>(dispatched.type = "stereoImgGoToNext")
         /\ []<>(\E t \in dwell : t.armedBy = "next" /\ t.elapsedMS = 0)

\* stereoImgGoToNext has been dispatched by a timeout armed on 'next', with the gaze on
\* 'next' at the last frame and the ring full
C15_Witness ==
    /\ dispatched.type = "stereoImgGoToNext"
    /\ dispatched.timer.armedBy = "next"
    /\ gaze = "next"
    /\ timerRing = [side |-> "next", shownMS |-> PREV_NEXT_TIMEOUT_MS]
    /\ prevNextTimer = 0

=============================================================================
